---------------------------- MODULE Spec2Model ----------------------------
(***************************************************************************)
(* PostGen Batch: a model of the template substitution engine              *)
(* (utils/pptxProcessor: parseCSV, extractKeysFromPPTX, generateBatch) and *)
(* of the App component that drives it (analyzeFiles, handleGenerate,      *)
(* handleReset, the mapping handlers).                                     *)
(*                                                                         *)
(* A JavaScript string is a sequence of one-character strings.  null and   *)
(* undefined are the one-element sequences <<"null">> and <<"undefined">>, *)
(* which no string equals because their element is not one character.      *)
(***************************************************************************)
EXTENDS Naturals, Sequences, FiniteSets, Bags

VARIABLES
    templateFile,   \* App state, useState hooks
    csvFile,
    csvData,
    previewData,
    downloadUrl,
    mapping,
    stats,
    error,
    analyses,       \* the bag of analyzeFiles invocations suspended at an await
    gb,             \* the activation of generateBatch (its arguments and locals)
    call            \* one application of the text functions to given inputs

vars == <<templateFile, csvFile, csvData, previewData, downloadUrl, mapping,
          stats, error, analyses, gb, call>>

appVars == <<templateFile, csvFile, csvData, previewData, downloadUrl, mapping,
             stats, error, analyses>>

----------------------------------------------------------------------------
(* JavaScript values *)

Null == <<"null">>

Undefined == <<"undefined">>

\* A string is falsy exactly when it is empty; null and undefined are falsy.
Truthy(v) == v # Null /\ v # Undefined /\ v # <<>>

\* String.prototype.trim: white space and line terminators at both ends.
IsSpace(c) == c \in {" ", "\t", "\n"}

RECURSIVE TrimStart(_)
TrimStart(s) ==
    IF s # <<>> /\ IsSpace(Head(s)) THEN TrimStart(Tail(s)) ELSE s

RECURSIVE TrimEnd(_)
TrimEnd(s) ==
    IF s # <<>> /\ IsSpace(s[Len(s)]) THEN TrimEnd(SubSeq(s, 1, Len(s) - 1)) ELSE s

Trim(s) == TrimEnd(TrimStart(s))

\* String.prototype.toLowerCase on the letters the model's names use.
LowerChar(c) ==
    CASE c = "A" -> "a" [] c = "B" -> "b" [] c = "C" -> "c" [] c = "D" -> "d"
      [] c = "E" -> "e" [] c = "I" -> "i" [] c = "J" -> "j" [] c = "M" -> "m"
      [] c = "N" -> "n" [] c = "T" -> "t" [] c = "Y" -> "y"
      [] OTHER -> c

ToLowerCase(s) == [i \in 1..Len(s) |-> LowerChar(s[i])]

RECURSIVE Concat(_)
Concat(ss) == IF ss = <<>> THEN <<>> ELSE Head(ss) \o Concat(Tail(ss))

\* Whether string p occurs in s at index i (1-based).
At(s, i, p) == i + Len(p) - 1 <= Len(s) /\ SubSeq(s, i, i + Len(p) - 1) = p

\* s.replace(/c/g, rep) for a one-character pattern c.
ReplaceChar(s, c, rep) ==
    Concat([i \in 1..Len(s) |-> IF s[i] = c THEN rep ELSE <<s[i]>>])

----------------------------------------------------------------------------
(* The placeholder regex /{{(.*?)}}/g *)

OpenBraces == <<"{", "{">>

CloseBraces == <<"}", "}">>

\* "." matches any character but a line terminator.
Dot(c) == c # "\n"

\* The index of the "}}" that ends the lazy match of .*? started at index k,
\* or 0 when the match fails (end of text, or a line terminator comes first).
RECURSIVE LazyClose(_, _)
LazyClose(s, k) ==
    IF At(s, k, CloseBraces) THEN k
    ELSE IF k > Len(s) \/ ~Dot(s[k]) THEN 0
    ELSE LazyClose(s, k + 1)

\* The match that starts at index i: 0 if none, else the index of its "}}".
MatchAt(s, i) == IF At(s, i, OpenBraces) THEN LazyClose(s, i + 2) ELSE 0

\* All matches of the global regex from index i on, leftmost first and not
\* overlapping, each as [from, to, capture].
RECURSIVE Matches(_, _)
Matches(s, i) ==
    IF i > Len(s) THEN <<>>
    ELSE LET k == MatchAt(s, i) IN
         IF k = 0 THEN Matches(s, i + 1)
         ELSE <<[from |-> i, to |-> k + 1, capture |-> SubSeq(s, i + 2, k - 1)]>>
              \o Matches(s, k + 2)

MatchText(s, m) == SubSeq(s, m.from, m.to)

----------------------------------------------------------------------------
(* extractKeysFromPPTX: the keys of one text *)

\* m.replace(/{{|}}/g, ''): every "{{" and every "}}" of the text is removed,
\* scanning left to right.
RECURSIVE StripBraces(_)
StripBraces(s) ==
    IF s = <<>> THEN <<>>
    ELSE IF At(s, 1, OpenBraces) \/ At(s, 1, CloseBraces)
         THEN StripBraces(SubSeq(s, 3, Len(s)))
         ELSE <<Head(s)>> \o StripBraces(Tail(s))

\* The key extractKeysFromPPTX derives from one match.
ScanKey(matchText) == Trim(StripBraces(matchText))

\* Array.from(new Set(...)): the first occurrence of each element, in order.
RECURSIVE Unique(_)
Unique(ks) ==
    IF ks = <<>> THEN <<>>
    ELSE LET init == Unique(SubSeq(ks, 1, Len(ks) - 1))
             last == ks[Len(ks)]
         IN IF \E i \in 1..Len(init) : init[i] = last THEN init
            ELSE Append(init, last)

\* The keys of a slide text: matches.map(strip, trim), made unique.
ScanKeysOf(content) ==
    LET ms == Matches(content, 1)
    IN [i \in 1..Len(ms) |-> ScanKey(MatchText(content, ms[i]))]

ExtractKeys(content) == Unique(ScanKeysOf(content))

----------------------------------------------------------------------------
(* generateBatch: the replace callback *)

\* A row is a sequence of [col, val] in Object.keys order.
RowHas(row, col) == \E i \in 1..Len(row) : row[i].col = col

RowGet(row, col) ==
    IF RowHas(row, col)
    THEN row[CHOOSE i \in 1..Len(row) : row[i].col = col].val
    ELSE Undefined

\* mapping[key] for an object literal: undefined for a key it does not hold.
Lookup(m, key) == IF key \in DOMAIN m THEN m[key] ELSE Undefined

\* The escaping with the ampersand pass moved last: the entities the earlier
\* passes wrote are escaped again.
XmlEscape_AmpersandLast(value) ==
    ReplaceChar(
      ReplaceChar(
        ReplaceChar(
          ReplaceChar(
            ReplaceChar(value, "<", <<"&", "l", "t", ";">>),
            ">", <<"&", "g", "t", ";">>),
          "\"", <<"&", "q", "u", "o", "t", ";">>),
        "'", <<"&", "a", "p", "o", "s", ";">>),
      "&", <<"&", "a", "m", "p", ";">>)

\* The five replace passes, ampersand first.
XmlEscape(value) ==
    ReplaceChar(
      ReplaceChar(
        ReplaceChar(
          ReplaceChar(
            ReplaceChar(value, "&", <<"&", "a", "m", "p", ";">>),
            "<", <<"&", "l", "t", ";">>),
          ">", <<"&", "g", "t", ";">>),
        "\"", <<"&", "q", "u", "o", "t", ";">>),
      "'", <<"&", "a", "p", "o", "s", ";">>)

\* The lookup key without the trim.
CleanKey_Untrimmed(capturedKey) == capturedKey

\* The key the callback looks up for a match.
CleanKey(capturedKey) == Trim(capturedKey)

\* The callback of content.replace: what one match is replaced by.
ReplaceCallback(match, capturedKey, m, row) ==
    LET cleanKey == CleanKey(capturedKey)
        csvColumnName == Lookup(m, cleanKey)
    IN IF Truthy(csvColumnName) /\ RowGet(row, csvColumnName) # Undefined
       THEN LET value == IF Truthy(RowGet(row, csvColumnName))
                         THEN RowGet(row, csvColumnName) ELSE <<>>
            IN XmlEscape(value)
       ELSE match

\* content.replace(regex, callback): the text between the matches is kept.
RECURSIVE ReplaceFrom(_, _, _, _, _)
ReplaceFrom(s, ms, i, m, row) ==
    IF ms = <<>> THEN SubSeq(s, i, Len(s))
    ELSE SubSeq(s, i, Head(ms).from - 1)
         \o ReplaceCallback(MatchText(s, Head(ms)), Head(ms).capture, m, row)
         \o ReplaceFrom(s, Tail(ms), Head(ms).to + 1, m, row)

ReplaceAll(content, m, row) == ReplaceFrom(content, Matches(content, 1), 1, m, row)

\* The keys the callback looks up, one per match, in order.
LookupKeysOf(content) ==
    LET ms == Matches(content, 1)
    IN [i \in 1..Len(ms) |-> CleanKey(ms[i].capture)]

----------------------------------------------------------------------------
(* analyzeFiles: auto-match of columns to keys *)

\* headers.find(h => h.trim().toLowerCase() === key.toLowerCase())
FindHeader(headers, key) ==
    LET hit(i) == ToLowerCase(Trim(headers[i])) = ToLowerCase(key)
    IN IF \E i \in 1..Len(headers) : hit(i)
       THEN headers[CHOOSE i \in 1..Len(headers) :
                        hit(i) /\ \A j \in 1..(i - 1) : ~hit(j)]
       ELSE Undefined

\* newMapping[key] = matchedHeader || null
AutoMatchKey(headers, key) ==
    LET matchedHeader == FindHeader(headers, key)
    IN IF Truthy(matchedHeader) THEN matchedHeader ELSE Null

AutoMatch(templateKeys, headers) ==
    [key \in {templateKeys[i] : i \in 1..Len(templateKeys)} |->
        AutoMatchKey(headers, key)]

----------------------------------------------------------------------------
(* Archives: a decoded package is a function from part paths to texts.  A  *)
(* path is <<prefix, name, suffix>>, so that startsWith and endsWith are   *)
(* comparisons of its first and last component.                            *)

Slide1Path == <<"ppt/slides/slide", "1", ".xml">>

Slide2Path == <<"ppt/slides/slide", "2", ".xml">>

PresentationPath == <<"ppt/", "presentation", ".xml">>

\* path.startsWith("ppt/slides/slide") && path.endsWith(".xml")
IsSlidePath(path) == path[1] = "ppt/slides/slide" /\ path[3] = ".xml"

\* The loop over slideFiles of one row: every slide part is rewritten.
TransformArchive(files, m, row) ==
    [p \in DOMAIN files |->
        IF IsSlidePath(p) THEN ReplaceAll(files[p], m, row) ELSE files[p]]

\* extractKeysFromPPTX after the archive is decoded: slide1.xml only, and
\* the empty list when it is absent (the throw is caught).
KeysOfArchive(files) ==
    IF Slide1Path \in DOMAIN files THEN ExtractKeys(files[Slide1Path]) ELSE <<>>

\* transformHeader of parseCSV: every header is trimmed.
ParseHeaders(rawHeaders) == [i \in 1..Len(rawHeaders) |-> Trim(rawHeaders[i])]

----------------------------------------------------------------------------
(* Names and sets used by the inputs *)

Seqs(S, n) == UNION {[1..k -> S] : k \in 0..n}

sB == <<"b">>

sName == <<"N", "a", "m", "e">>

sNAME == <<"N", "A", "M", "E">>

----------------------------------------------------------------------------
(* generateBatch: file names *)

AlnumChars ==
    {"a", "b", "c", "d", "e", "f", "g", "h", "i", "j", "k", "l", "m", "n", "o", "p",
     "q", "r", "s", "t", "u", "v", "w", "x", "y", "z",
     "A", "B", "C", "D", "E", "F", "G", "H", "I", "J", "K", "L", "M", "N", "O", "P",
     "Q", "R", "S", "T", "U", "V", "W", "X", "Y", "Z",
     "0", "1", "2", "3", "4", "5", "6", "7", "8", "9"}

\* value.replace(/[^a-z0-9]/gi, '_')
Sanitize(value) ==
    [k \in 1..Len(value) |-> IF value[k] \in AlnumChars THEN value[k] ELSE "_"]

\* The decimal digits of a number, as the template literal writes it.
RECURSIVE Digits(_)
Digits(n) ==
    LET d == <<"0", "1", "2", "3", "4", "5", "6", "7", "8", "9">>[(n % 10) + 1]
    IN IF n < 10 THEN <<d>> ELSE Digits(n \div 10) \o <<d>>

\* Object.values(row)[0]
FirstValue(row) == IF row = <<>> THEN Undefined ELSE row[1].val

\* Object.values(row)[0]?.replace(/[^a-z0-9]/gi, '_') || 'generated'
NamePart(row) ==
    LET v == FirstValue(row)
        sanitized == IF v = Undefined THEN Undefined ELSE Sanitize(v)
    IN IF Truthy(sanitized) THEN sanitized
       ELSE <<"g", "e", "n", "e", "r", "a", "t", "e", "d">>

\* The name without the row index: rows are told apart by the value alone.
FileName_WithoutIndex(i, row) ==
    <<"s", "l", "i", "d", "e", "_">> \o NamePart(row) \o <<".", "p", "p", "t", "x">>

\* `slide_${i + 1}_${...}.pptx`, i being the 0-based index of the row
FileName(i, row) ==
    <<"s", "l", "i", "d", "e", "_">> \o Digits(i + 1) \o <<"_">> \o NamePart(row)
    \o <<".", "p", "p", "t", "x">>

\* masterZip.file(name, blob): the entry is added, or replaced if it exists.
ZipFile(zip, name, blob) ==
    [n \in DOMAIN zip \cup {name} |-> IF n = name THEN blob ELSE zip[n]]

----------------------------------------------------------------------------
(* The files a user can select *)

NoFile == "null"

TemplateFiles == {"tplA", "tplNoSlide1", "tplCorrupt"}

\* Whether JSZip.loadAsync decodes the file.
IsArchive(f) == f # "tplCorrupt"

sCity == <<"C", "i", "t", "y">>

\* The parts of a template that decodes.
TemplateParts(f) ==
    IF f = "tplA"
    THEN [p \in {Slide1Path, Slide2Path, PresentationPath} |->
            IF p = Slide1Path
            THEN OpenBraces \o <<" ">> \o sNAME \o <<" ">> \o CloseBraces
            ELSE IF p = Slide2Path
            THEN OpenBraces \o sCity \o CloseBraces \o OpenBraces \o sNAME \o CloseBraces
            ELSE OpenBraces \o sNAME \o CloseBraces]
    ELSE [p \in {Slide2Path, PresentationPath} |->
            OpenBraces \o sNAME \o CloseBraces]

\* The bytes file.arrayBuffer() delivers: whether they decode, and to what.
FileBytes(f) ==
    [file |-> f, valid |-> IsArchive(f),
     parts |-> IF IsArchive(f) THEN TemplateParts(f) ELSE <<>>]

\* templateArrayBuffer before the read has resolved
NoBytes == [file |-> NoFile, valid |-> FALSE, parts |-> <<>>]

Row2(c1, v1, c2, v2) == <<[col |-> c1, val |-> v1], [col |-> c2, val |-> v2]>>

sJohnDoe == <<"J", " ", "D">>

\* A CSV of two rows and one without rows.  Papa.parse of a File calls error
\* only when the file cannot be read, and no file here is unreadable.
CsvFiles == {"csvA", "csvEmpty"}

\* Whether Papa.parse completes (it calls error otherwise).
CsvParses(f) == f \in CsvFiles

\* results.data of a CSV that parses: the rows, empty lines skipped.
CsvRows(f) ==
    IF f = "csvA"
    THEN <<Row2(sName, sJohnDoe, sCity, <<"<", "&">>), Row2(sName, sJohnDoe, sCity, <<>>)>>
    ELSE <<>>

----------------------------------------------------------------------------
(* The state before anything is selected or called *)

NoCall ==
    [op |-> "none", pc |-> "none", target |-> Slide1Path, segs |-> <<>>, files |-> <<>>,
     m |-> <<>>, row |-> <<>>, keys |-> <<>>, out |-> <<>>, rekeys |-> <<>>,
     rawHeaders |-> <<>>]

\* previewData when it is null
NullPreview == [tag |-> "null"]

InitApp0 ==
    /\ templateFile = "null"
    /\ csvFile = "null"
    /\ csvData = <<>>
    /\ previewData = NullPreview
    /\ downloadUrl = "null"
    /\ mapping = <<>>
    /\ stats = [total |-> 0, processed |-> 0, isProcessing |-> FALSE, isComplete |-> FALSE]
    /\ error = "null"
    /\ analyses = EmptyBag

NoBatch == [pc |-> "none"]

----------------------------------------------------------------------------
(* generateBatch *)

\* The calls, in order, that a batch makes: a row's template decode, its
\* entry in masterZip, its onProgress call.
DecodeEvent(k) == [e |-> "decode", row |-> k]

AddEvent(k, name) == [e |-> "add", row |-> k, name |-> name]

ProgressEvent(current, total) == [e |-> "progress", current |-> current, total |-> total]

\* The arguments of the progress call for the row of 0-based index i, one short.
ProgressArgs_RowIndex(i, total) == <<i, total>>

\* onProgress(i + 1, total)
ProgressArgs(i, total) == <<i + 1, total>>

\* The activation right after the call: total and masterZip are set and the
\* function awaits templateFile.arrayBuffer().
BatchStart(caller, f, data, m) ==
    [pc |-> "arrayBuffer", caller |-> caller, templateFile |-> f, data |-> data, m |-> m,
     total |-> Len(data), i |-> 0, templateArrayBuffer |-> NoBytes,
     pptxZip |-> <<>>, masterZip |-> <<>>,
     events |-> <<>>, result |-> Null]

\* A rejected promise: the locals, masterZip among them, are gone.
BatchRejected(caller) == [pc |-> "rejected", caller |-> caller]

\* The state hook after setStats(prev => ({...prev, processed, total})).
StatsAfterProgress(prev, args) == [prev EXCEPT !.processed = args[1], !.total = args[2]]

\* templateFile.arrayBuffer() resolves; the loop is entered if there is a row.
GB_ReadTemplate ==
    /\ gb.pc = "arrayBuffer"
    /\ gb' = [gb EXCEPT !.pc = IF gb.i < gb.total THEN "load" ELSE "final",
                        !.templateArrayBuffer = FileBytes(gb.templateFile)]
    /\ UNCHANGED <<appVars, call>>

\* JSZip.loadAsync(templateArrayBuffer) for the row i: a fresh decode, or a
\* rejection when the bytes are no archive.
GB_LoadTemplate ==
    /\ gb.pc = "load"
    /\ IF gb.templateArrayBuffer.valid
       THEN gb' = [gb EXCEPT !.pc = "slides",
                             !.pptxZip = gb.templateArrayBuffer.parts,
                             !.events = Append(gb.events, DecodeEvent(gb.i + 1))]
       ELSE gb' = BatchRejected(gb.caller)
    /\ UNCHANGED <<appVars, call>>

\* pptxZip.file(slidePath, content) writing through to the bytes the
\* archive was decoded from.
BufferAfterFile_WriteThrough(buffer, files) == [buffer EXCEPT !.parts = files]

\* pptxZip.file(slidePath, content) replaces an entry of the decoded object;
\* the bytes it was decoded from are not written.
BufferAfterFile(buffer, files) == buffer

\* The loop over the slide parts of the row i.
GB_TransformSlides ==
    /\ gb.pc = "slides"
    /\ LET files == TransformArchive(gb.pptxZip, gb.m, gb.data[gb.i + 1])
       IN gb' = [gb EXCEPT !.pc = "generate",
                           !.pptxZip = files,
                           !.templateArrayBuffer =
                               BufferAfterFile(gb.templateArrayBuffer, files)]
    /\ UNCHANGED <<appVars, call>>

\* pptxZip.generateAsync resolves: the document is named and added to
\* masterZip, onProgress is called, and the loop goes on or ends.
GB_EncodeRow ==
    /\ gb.pc = "generate"
    /\ LET fileName == FileName(gb.i, gb.data[gb.i + 1])
           args == ProgressArgs(gb.i, gb.total)
       IN /\ gb' = [gb EXCEPT
                      !.masterZip = ZipFile(gb.masterZip, fileName, gb.pptxZip),
                      !.events = gb.events \o <<AddEvent(gb.i + 1, fileName),
                                                 ProgressEvent(args[1], args[2])>>,
                      !.i = gb.i + 1,
                      !.pptxZip = <<>>,
                      !.pc = IF gb.i + 1 < gb.total THEN "load" ELSE "final"]
          /\ IF gb.caller = "handleGenerate"
             THEN stats' = StatsAfterProgress(stats, args)
             ELSE UNCHANGED stats
    /\ UNCHANGED <<templateFile, csvFile, csvData, previewData, downloadUrl, mapping,
                   error, analyses, call>>

\* masterZip.generateAsync resolves: the batch returns the outer archive.
GB_Finalize ==
    /\ gb.pc = "final"
    /\ gb' = [gb EXCEPT !.pc = "resolved", !.result = gb.masterZip]
    /\ UNCHANGED <<appVars, call>>

\* An awaited read, decode or serialization fails for a reason other than the
\* template's bytes: the exception leaves generateBatch.
GB_Throw ==
    /\ gb.pc \in {"arrayBuffer", "load", "slides", "generate", "final"}
    /\ gb' = BatchRejected(gb.caller)
    /\ UNCHANGED <<appVars, call>>

GB_Step ==
    \/ GB_ReadTemplate
    \/ GB_LoadTemplate
    \/ GB_TransformSlides
    \/ GB_EncodeRow
    \/ GB_Finalize
    \/ GB_Throw

----------------------------------------------------------------------------
(* App: the effect on [templateFile, csvFile] and analyzeFiles *)

MaxAnalyses == 2

\* obj = {...obj, [key]: value}
ObjSet(obj, key, value) ==
    [k \in DOMAIN obj \cup {key} |-> IF k = key THEN value ELSE obj[k]]

\* Object.keys(data[0])
HeadersOf(data) == [k \in 1..Len(data[1]) |-> data[1][k].col]

\* The effect after a selection made the files t and c: analyzeFiles runs
\* up to its first await.
AnalyzeFilesStart(t, c) ==
    IF t = NoFile \/ c = NoFile
    THEN /\ previewData' = NullPreview
         /\ mapping' = <<>>
         /\ UNCHANGED <<error, analyses>>
    ELSE /\ error' = "null"
         /\ analyses' = analyses (+) SetToBag({[t |-> t, c |-> c, pc |-> "parseCSV", data |-> <<>>]})
         /\ UNCHANGED <<previewData, mapping>>

CanStartAnalysis(t, c) == t = NoFile \/ c = NoFile \/ BagCardinality(analyses) < MaxAnalyses

\* onFileSelect of the template uploader
SelectTemplate(f) ==
    /\ CanStartAnalysis(f, csvFile)
    /\ templateFile' = f
    /\ AnalyzeFilesStart(f, csvFile)
    /\ UNCHANGED <<csvFile, csvData, downloadUrl, stats, gb, call>>

\* onFileSelect of the CSV uploader
SelectCsv(f) ==
    /\ CanStartAnalysis(templateFile, f)
    /\ csvFile' = f
    /\ AnalyzeFilesStart(templateFile, f)
    /\ UNCHANGED <<templateFile, csvData, downloadUrl, stats, gb, call>>

\* await parseCSV(csvFile) ends: a rejection or an empty result is caught
\* and reported, and nothing else is set; otherwise csvData is set and the
\* analysis awaits extractKeysFromPPTX.
AnalyzeParsed(a) ==
    /\ a.pc = "parseCSV"
    /\ IF ~CsvParses(a.c) \/ CsvRows(a.c) = <<>>
       THEN /\ error' = "analyze"
            /\ analyses' = analyses (-) SetToBag({a})
            /\ UNCHANGED csvData
       ELSE /\ csvData' = CsvRows(a.c)
            /\ analyses' = (analyses (-) SetToBag({a}))
                              (+) SetToBag({[a EXCEPT !.pc = "extractKeys",
                                                      !.data = CsvRows(a.c)]})
            /\ UNCHANGED error
    /\ UNCHANGED <<templateFile, csvFile, previewData, downloadUrl, mapping, stats, gb, call>>

\* The try block of extractKeysFromPPTX: the keys it returns, or the throw
\* of loadAsync on bytes that are no archive, or of the missing slide1.xml.
ExtractTry(f) ==
    IF IsArchive(f) /\ Slide1Path \in DOMAIN TemplateParts(f)
    THEN [thrown |-> FALSE, keys |-> KeysOfArchive(TemplateParts(f))]
    ELSE [thrown |-> TRUE, keys |-> <<>>]

\* A catch block that throws the error on to the caller.
ExtractCatch_Rethrow(tried) == tried

\* The catch block of extractKeysFromPPTX: the error is logged, [] returned.
ExtractCatch(tried) == IF tried.thrown THEN [thrown |-> FALSE, keys |-> <<>>] ELSE tried

\* extractKeysFromPPTX(templateFile): how its promise settles.
KeysOfFile(f) == ExtractCatch(ExtractTry(f))

\* await extractKeysFromPPTX ends: the preview and the auto-match are set; a
\* rejection would be caught and reported like one of parseCSV.
AnalyzeKeysExtracted(a) ==
    /\ a.pc = "extractKeys"
    /\ LET data == a.data
           headers == HeadersOf(data)
           settled == KeysOfFile(a.t)
       IN IF settled.thrown
          THEN /\ error' = "analyze"
               /\ UNCHANGED <<previewData, mapping>>
          ELSE /\ previewData' = [csvHeaders |-> headers, templateKeys |-> settled.keys,
                                  rowCount |-> Len(data)]
               /\ mapping' = AutoMatch(settled.keys, headers)
               /\ UNCHANGED error
    /\ analyses' = analyses (-) SetToBag({a})
    /\ UNCHANGED <<templateFile, csvFile, csvData, downloadUrl, stats, gb, call>>

----------------------------------------------------------------------------
(* App: the mapping workspace and the batch *)

\* The workspace, with the drop zones and the generate button, is rendered.
WorkspaceShown ==
    previewData # NullPreview /\ ~stats.isProcessing /\ ~stats.isComplete

\* The success panel, with the reset button, is rendered.
SuccessShown == stats.isComplete /\ downloadUrl # "null"

\* The keys that have a drop zone: previewData.templateKeys
ShownKeys ==
    IF previewData = NullPreview THEN {}
    ELSE {previewData.templateKeys[k] : k \in 1..Len(previewData.templateKeys)}

\* The columns that can be dragged: previewData.csvHeaders
ShownColumns ==
    IF previewData = NullPreview THEN {}
    ELSE {previewData.csvHeaders[k] : k \in 1..Len(previewData.csvHeaders)}

\* handleDrop: a column name dragged onto the drop zone of a key
HandleDrop(key, colName) ==
    /\ WorkspaceShown
    /\ Truthy(colName)
    /\ mapping' = ObjSet(mapping, key, colName)
    /\ UNCHANGED <<templateFile, csvFile, csvData, previewData, downloadUrl, stats, error,
                   analyses, gb, call>>

\* handleRemoveMapping: the button of a mapped key
HandleRemoveMapping(key) ==
    /\ WorkspaceShown
    /\ Truthy(Lookup(mapping, key))
    /\ mapping' = ObjSet(mapping, key, Null)
    /\ UNCHANGED <<templateFile, csvFile, csvData, previewData, downloadUrl, stats, error,
                   analyses, gb, call>>

\* Object.values(mapping).some(v => v !== null)
HasMappings == \E k \in DOMAIN mapping : mapping[k] # Null

\* handleGenerate up to the await of generateBatch.  It returns at once
\* without a template or rows, or when the user declines to go on unmapped.
HandleGenerate(confirmed) ==
    /\ WorkspaceShown
    /\ IF templateFile = NoFile \/ Len(csvData) = 0 \/ (~HasMappings /\ ~confirmed)
       THEN UNCHANGED <<stats, downloadUrl, gb>>
       ELSE /\ stats' = [total |-> Len(csvData), processed |-> 0,
                         isProcessing |-> TRUE, isComplete |-> FALSE]
            /\ downloadUrl' = "null"
            /\ gb' = BatchStart("handleGenerate", templateFile, csvData, mapping)
    /\ UNCHANGED <<templateFile, csvFile, csvData, previewData, mapping, error, analyses, call>>

\* The state hook after the catch block, with isProcessing left as it was.
StatsAfterFailure_StillProcessing(prev) == prev

\* setStats(prev => ({ ...prev, isProcessing: false })) of the catch block
StatsAfterFailure(prev) == [prev EXCEPT !.isProcessing = FALSE]

\* The state hook after the success path, with isProcessing left as it was.
StatsAfterSuccess_StillProcessing(prev) == [prev EXCEPT !.isComplete = TRUE]

\* setStats(prev => ({ ...prev, isProcessing: false, isComplete: true }))
StatsAfterSuccess(prev) == [prev EXCEPT !.isProcessing = FALSE, !.isComplete = TRUE]

\* generateBatch resolved: the URL of the archive is set, the batch is complete.
HandleGenerateResolved ==
    /\ gb.pc = "resolved" /\ gb.caller = "handleGenerate"
    /\ downloadUrl' = "blob:lote_gerado"
    /\ stats' = StatsAfterSuccess(stats)
    /\ gb' = NoBatch
    /\ UNCHANGED <<templateFile, csvFile, csvData, previewData, mapping, error, analyses, call>>

\* generateBatch rejected: the catch block
HandleGenerateRejected ==
    /\ gb.pc = "rejected" /\ gb.caller = "handleGenerate"
    /\ error' = "generate"
    /\ stats' = StatsAfterFailure(stats)
    /\ gb' = NoBatch
    /\ UNCHANGED <<templateFile, csvFile, csvData, previewData, downloadUrl, mapping,
                   analyses, call>>

\* handleReset, and the effect its two setFile(null) calls trigger
HandleReset ==
    /\ SuccessShown
    /\ templateFile' = NoFile
    /\ csvFile' = NoFile
    /\ csvData' = <<>>
    /\ previewData' = NullPreview
    /\ mapping' = <<>>
    /\ stats' = [total |-> 0, processed |-> 0, isProcessing |-> FALSE, isComplete |-> FALSE]
    /\ error' = "null"
    /\ downloadUrl' = "null"
    /\ UNCHANGED <<analyses, gb, call>>

\* A name dragged from outside the list of columns.
colOther == <<"Z">>

InitApp ==
    /\ InitApp0
    /\ gb = NoBatch
    /\ call = NoCall

Next ==
    \/ \E f \in TemplateFiles : SelectTemplate(f)
    \/ \E f \in CsvFiles : SelectCsv(f)
    \/ \E a \in BagToSet(analyses) : AnalyzeParsed(a)
    \/ \E a \in BagToSet(analyses) : AnalyzeKeysExtracted(a)
    \/ \E key \in ShownKeys, colName \in ShownColumns \cup {colOther} :
          HandleDrop(key, colName)
    \/ \E key \in ShownKeys : HandleRemoveMapping(key)
    \/ \E confirmed \in BOOLEAN : HandleGenerate(confirmed)
    \/ GB_Step
    \/ HandleGenerateResolved
    \/ HandleGenerateRejected
    \/ HandleReset

Spec == InitApp /\ [][Next]_vars

----------------------------------------------------------------------------
(* generateBatch called on given arguments *)

MaxRows == 3

BatchRows ==
    {<<>>,
     <<[col |-> sName, val |-> <<>>]>>,
     Row2(sName, sJohnDoe, sCity, <<"<", "&">>),
     Row2(sName, <<"J", ".", "D">>, sCity, <<>>),
     Row2(sName, sJohnDoe, sCity, <<>>)}

BatchMappings ==
    {<<>>, [k \in {sNAME, sB} |-> IF k = sNAME THEN sName ELSE Null],
     [k \in {sNAME, sCity} |-> IF k = sNAME THEN sName ELSE sCity]}

InitBatch ==
    /\ InitApp0
    /\ call = NoCall
    /\ \E f \in TemplateFiles, data \in Seqs(BatchRows, MaxRows), m \in BatchMappings :
          gb = BatchStart("direct", f, data, m)

NextBatch == GB_Step

SpecBatch == InitBatch /\ [][NextBatch]_vars

----------------------------------------------------------------------------
(* Inputs of the text functions *)

MaxSegs == 2

MaxPieces == 3

MaxHeaders == 2

\* A text is written as segments: a character of plain text, or a token
\* "{{" inner "}}" whose inner text holds no "}".
TextSeg(c) == [kind |-> "text", s |-> <<c>>]

TokenSeg(inner) == [kind |-> "token", s |-> inner]

sA == <<"a">>

sPaddedA == <<" ", "a", " ">>

sNestedA == <<"{", "{", "a">>

sBrokenA == <<"a", "\n">>

Segments ==
    {TextSeg("x"), TextSeg("{"), TextSeg("}")}
    \cup {TokenSeg(sA), TokenSeg(sPaddedA), TokenSeg(sB), TokenSeg(sNestedA),
          TokenSeg(sBrokenA)}

SegText(seg) ==
    IF seg.kind = "token" THEN OpenBraces \o seg.s \o CloseBraces ELSE seg.s

Flatten(segs) == Concat([i \in 1..Len(segs) |-> SegText(segs[i])])

\* The segments are the text's own reading: a plain "{" never touches a
\* following "{", so every "{{" of the text opens a token segment.
Readable(segs) ==
    \A i \in 1..(Len(segs) - 1) :
        segs[i] = TextSeg("{") => Head(SegText(segs[i + 1])) # "{"

colC == <<"C">>

colZ == <<"Z">>

\* A mapping holds, for some keys, null, a column of the row or a column the
\* row lacks.  A column name is never empty: the auto-match turns an empty
\* header into null and handleDrop ignores an empty name.
SubMappings ==
    UNION {[ks -> {Null, colC, colZ}] : ks \in SUBSET {sA, sB}}

SubRows ==
    {<<[col |-> colC, val |-> v]>> : v \in {<<>>, <<"<", "&">>, <<"{", "{", "b", "}", "}">>}}

SubTargets == {Slide1Path, Slide2Path, PresentationPath}

\* The archive whose part target holds the text; the other parts hold {{a}}.
ArchiveWith(target, content) ==
    [p \in SubTargets |-> IF p = target THEN content ELSE Flatten(<<TokenSeg(sA)>>)]

\* A template text, a mapping and a row are given; the text is scanned,
\* substituted and scanned again.
InitSub ==
    /\ InitApp0
    /\ gb = NoBatch
    /\ \E segs \in Seqs(Segments, MaxSegs), t \in SubTargets, m \in SubMappings,
          row \in SubRows :
          /\ Readable(segs)
          /\ call = [NoCall EXCEPT !.op = "substitute", !.pc = "scan", !.target = t,
                                   !.segs = segs, !.files = ArchiveWith(t, Flatten(segs)),
                                   !.m = m, !.row = row]

\* extractKeysFromPPTX on the template
ScanTemplate ==
    /\ call.pc = "scan"
    /\ call' = [call EXCEPT !.keys = KeysOfArchive(call.files),
                            !.pc = IF call.op = "automap" THEN "map" ELSE "replace"]
    /\ UNCHANGED <<appVars, gb>>

\* one row of generateBatch: every slide part is rewritten
SubstituteRow ==
    /\ call.pc = "replace"
    /\ call' = [call EXCEPT !.out = TransformArchive(call.files, call.m, call.row),
                            !.pc = "rescan"]
    /\ UNCHANGED <<appVars, gb>>

\* extractKeysFromPPTX on the row's document
RescanOutput ==
    /\ call.pc = "rescan"
    /\ call' = [call EXCEPT !.rekeys = KeysOfArchive(call.out), !.pc = "done"]
    /\ UNCHANGED <<appVars, gb>>

NextSub == ScanTemplate \/ SubstituteRow \/ RescanOutput

SpecSub == InitSub /\ [][NextSub]_vars

----------------------------------------------------------------------------
(* Escaping: a value is substituted for the one token of a slide *)

EscPieces ==
    {<<"&">>, <<"<">>, <<">">>, <<"\"">>, <<"'">>, <<"x">>,
     <<"a", "m", "p", ";">>, <<"l", "t", ";">>, <<"&", "a", "m", "p", ";">>}

InitEsc ==
    /\ InitApp0
    /\ gb = NoBatch
    /\ \E ps \in Seqs(EscPieces, MaxPieces) :
          call = [NoCall EXCEPT !.op = "escape", !.pc = "replace", !.target = Slide1Path,
                                !.segs = <<TokenSeg(sPaddedA)>>,
                                !.files = ArchiveWith(Slide1Path, Flatten(<<TokenSeg(sPaddedA)>>)),
                                !.m = [k \in {sA} |-> colC],
                                !.row = <<[col |-> colC, val |-> Concat(ps)]>>]

NextEsc == SubstituteRow

SpecEsc == InitEsc /\ [][NextEsc]_vars

----------------------------------------------------------------------------
(* Auto-match: the keys of a template against the header line of a CSV *)

KeyInners == {<<"n", "a", "m", "e">>, sNAME, <<" ", "N", "a", "m", "e">>, <<>>, sB}

RawHeaders ==
    {sName, <<"N", "a", "m", "e", " ">>, sNAME, <<"N", "a", "m", "e", "2">>, <<>>, <<" ">>, sB}

\* Object.keys(data[0]) holds no name twice.
Distinct(seq) == \A i, j \in 1..Len(seq) : i # j => seq[i] # seq[j]

InitMap ==
    /\ InitApp0
    /\ gb = NoBatch
    /\ \E inners \in Seqs(KeyInners, MaxSegs), raw \in Seqs(RawHeaders, MaxHeaders) :
          /\ Distinct(ParseHeaders(raw))
          /\ call = [NoCall EXCEPT
                        !.op = "automap", !.pc = "scan",
                        !.segs = [i \in 1..Len(inners) |-> TokenSeg(inners[i])],
                        !.files = ArchiveWith(Slide1Path,
                                    Flatten([i \in 1..Len(inners) |-> TokenSeg(inners[i])])),
                        !.rawHeaders = raw]

\* step 3 of analyzeFiles, on the headers parseCSV delivers
AutoMapKeys ==
    /\ call.pc = "map"
    /\ call' = [call EXCEPT !.m = AutoMatch(call.keys, ParseHeaders(call.rawHeaders)),
                            !.pc = "done"]
    /\ UNCHANGED <<appVars, gb>>

NextMap == ScanTemplate \/ AutoMapKeys

SpecMap == InitMap /\ [][NextMap]_vars

----------------------------------------------------------------------------
(* Properties of the text functions *)

SeqToSet(seq) == {seq[i] : i \in 1..Len(seq)}

\* The entity of one character, as a standard markup encoder writes it.
EntityOf(c) ==
    CASE c = "&" -> <<"&", "a", "m", "p", ";">>
      [] c = "<" -> <<"&", "l", "t", ";">>
      [] c = ">" -> <<"&", "g", "t", ";">>
      [] c = "\"" -> <<"&", "q", "u", "o", "t", ";">>
      [] c = "'" -> <<"&", "a", "p", "o", "s", ";">>
      [] OTHER -> <<c>>

EscapedForm(value) == Concat([i \in 1..Len(value) |-> EntityOf(value[i])])

\* The standard entity decoder: one pass, left to right.
RECURSIVE XmlDecode(_)
XmlDecode(s) ==
    IF s = <<>> THEN <<>>
    ELSE IF \E c \in {"&", "<", ">", "\"", "'"} : At(s, 1, EntityOf(c))
         THEN LET c == CHOOSE x \in {"&", "<", ">", "\"", "'"} : At(s, 1, EntityOf(x))
              IN <<c>> \o XmlDecode(SubSeq(s, Len(EntityOf(c)) + 1, Len(s)))
         ELSE <<Head(s)>> \o XmlDecode(Tail(s))

\* A token segment is an occurrence of the pattern unless a line terminator
\* stands between its braces.
IsOccurrence(seg) == seg.kind = "token" /\ \A i \in 1..Len(seg.s) : seg.s[i] # "\n"

\* What the substitution contract makes of one segment, the key being `key`.
ExpectedSeg(seg, key, m, row) ==
    IF /\ IsOccurrence(seg)
       /\ key \in DOMAIN m
       /\ m[key] # Null
       /\ RowHas(row, m[key])
    THEN EscapedForm(RowGet(row, m[key]))
    ELSE SegText(seg)

ExpectedText(segs, m, row) ==
    Concat([i \in 1..Len(segs) |-> ExpectedSeg(segs[i], Trim(segs[i].s), m, row)])

\* The segments of a part of the call's archive.
PartSegs(p) == IF p = call.target THEN call.segs ELSE <<TokenSeg(sA)>>

Substituted == call.op = "substitute" /\ call.pc \in {"rescan", "done"}

\* C2: in every slide part of a row's document, every {{...}} occurrence
\* whose trimmed capture is mapped to a column the row has is replaced by the
\* escaped value (nothing for an empty value); every other occurrence, and
\* all other text, is left exactly as it was.
C2_SubstitutionPerOccurrence ==
    Substituted =>
        \A p \in DOMAIN call.out :
            IsSlidePath(p) =>
                call.out[p] = ExpectedText(PartSegs(p), call.m, call.row)

C2_Witness ==
    /\ Substituted
    /\ call.target = Slide2Path
    /\ call.segs = <<TokenSeg(sPaddedA), TokenSeg(sB)>>
    /\ call.m = [k \in {sA} |-> colC]
    /\ call.row = <<[col |-> colC, val |-> <<"<", "&">>]>>
    /\ call.out[Slide2Path] =
         <<"&", "l", "t", ";", "&", "a", "m", "p", ";", "{", "{", "b", "}", "}">>

\* C7: the text substituted for a value decodes, under the standard entity
\* decoder, to the value itself.
C7_EscapeRoundTrip ==
    (call.op = "escape" /\ call.pc = "rescan") =>
        XmlDecode(call.out[Slide1Path]) = call.row[1].val

C7_Witness ==
    /\ call.op = "escape" /\ call.pc = "rescan"
    /\ call.row[1].val = <<"&", "a", "m", "p", ";", "<", "'">>
    /\ call.out[Slide1Path] =
         <<"&", "a", "m", "p", ";", "a", "m", "p", ";", "&", "l", "t", ";",
           "&", "a", "p", "o", "s", ";">>

\* C8: substituting a row and scanning the result again yields exactly the
\* keys of the template that are unmapped or mapped to a column the row lacks.
C8_RescanYieldsUnsubstitutedKeys ==
    (call.op = "substitute" /\ call.pc = "done") =>
        SeqToSet(call.rekeys) =
            {k \in SeqToSet(call.keys) :
                \/ k \notin DOMAIN call.m
                \/ call.m[k] = Null
                \/ ~RowHas(call.row, call.m[k])}

\* C9: for every match of every slide part the scanner's key is the key the
\* substitution looks up, so a token whose scanned key is mapped to a column
\* the row has is substituted.
C9_SameTokenization ==
    Substituted =>
        \A p \in DOMAIN call.files :
            IsSlidePath(p) =>
                /\ ScanKeysOf(call.files[p]) = LookupKeysOf(call.files[p])
                /\ call.out[p] =
                     Concat([i \in 1..Len(PartSegs(p)) |->
                                ExpectedSeg(PartSegs(p)[i], ScanKey(SegText(PartSegs(p)[i])),
                                            call.m, call.row)])

\* The first column, in column order, whose trimmed name equals the trimmed
\* key when case is ignored; 0 if there is none.
FirstMatchingColumn(raw, key) ==
    LET eq(i) == ToLowerCase(Trim(raw[i])) = ToLowerCase(Trim(key))
    IN IF \E i \in 1..Len(raw) : eq(i)
       THEN CHOOSE i \in 1..Len(raw) : eq(i) /\ \A j \in 1..(i - 1) : ~eq(j)
       ELSE 0

\* C6: the auto-match gives every key the first column that matches it, and
\* null exactly when no column matches.
C6_AutoMatchFirstColumn ==
    (call.op = "automap" /\ call.pc = "done") =>
        /\ DOMAIN call.m = SeqToSet(call.keys)
        /\ \A key \in SeqToSet(call.keys) :
              LET i == FirstMatchingColumn(call.rawHeaders, key)
              IN /\ i # 0 => call.m[key] = ParseHeaders(call.rawHeaders)[i]
                 /\ call.m[key] = Null <=> i = 0

----------------------------------------------------------------------------
(* Properties of generateBatch *)

IsPrefix(a, b) == Len(a) <= Len(b) /\ SubSeq(b, 1, Len(a)) = a

\* An event without the file name.
EventKind(ev) ==
    IF ev.e = "progress" THEN <<"progress", ev.current, ev.total>> ELSE <<ev.e, ev.row>>

\* For N rows: row k is decoded, then added, then reported as (k, N).
ExpectedEvents(n) ==
    Concat([k \in 1..n |-> <<<<"decode", k>>, <<"add", k>>, <<"progress", k, n>>>>])

BatchRunning == gb.pc \notin {"none", "rejected"}

ProgressCalls ==
    LET idx == {k \in 1..Len(gb.events) : gb.events[k].e = "progress"}
    IN Cardinality(idx)

\* C1: a batch of N rows that completes has called onProgress N times, the
\* k-th call being (k, N); at every moment the k-th call follows the adding of
\* row k's document to masterZip and precedes the decode for row k + 1.
C1_ProgressPerRow ==
    BatchRunning =>
        LET kinds == [k \in 1..Len(gb.events) |-> EventKind(gb.events[k])]
        IN /\ IsPrefix(kinds, ExpectedEvents(gb.total))
           /\ \A k \in 1..Len(gb.events) :
                 gb.events[k].e = "add" => gb.events[k].name \in DOMAIN gb.masterZip
           /\ gb.pc = "resolved" =>
                 /\ kinds = ExpectedEvents(gb.total)
                 /\ ProgressCalls = Len(gb.data)

C1_Witness ==
    /\ gb.pc = "resolved"
    /\ gb.total = 3
    /\ ProgressCalls = 3
    /\ gb.events[Len(gb.events)] = ProgressEvent(3, 3)

\* C4: generateBatch on zero rows does not return an archive.
C4_EmptyBatchFails == ~(gb.pc = "resolved" /\ gb.total = 0)

\* The rows i < j of the batch have first values and their sanitized forms
\* are the same.
Collide(i, j) ==
    /\ i < j
    /\ FirstValue(gb.data[i]) # Undefined
    /\ FirstValue(gb.data[j]) # Undefined
    /\ NamePart(gb.data[i]) = NamePart(gb.data[j])

\* The document of the k-th row of the batch.
DocOfRow(k) == TransformArchive(TemplateParts(gb.templateFile), gb.m, gb.data[k])

\* C10 as stated: of two rows whose sanitized first values collide, the
\* outer archive holds one entry, with the later row's document.
C10_CollisionLastRowWins ==
    gb.pc = "resolved" =>
        \A i, j \in 1..gb.total :
            Collide(i, j) =>
                LET names == {FileName(i - 1, gb.data[i]), FileName(j - 1, gb.data[j])}
                IN /\ Cardinality(names \cap DOMAIN gb.result) = 1
                   /\ gb.result[FileName(j - 1, gb.data[j])] = DocOfRow(j)

\* C10 amended: the row index is part of the name, so two rows whose
\* sanitized first values collide have two entries, each with its own row's
\* document.
C10_CollisionKeepsBothRows ==
    gb.pc = "resolved" =>
        \A i, j \in 1..gb.total :
            Collide(i, j) =>
                LET ni == FileName(i - 1, gb.data[i])
                    nj == FileName(j - 1, gb.data[j])
                IN /\ ni # nj
                   /\ {ni, nj} \subseteq DOMAIN gb.result
                   /\ gb.result[ni] = DocOfRow(i)
                   /\ gb.result[nj] = DocOfRow(j)

C10_Witness ==
    /\ gb.pc = "resolved"
    /\ gb.templateFile = "tplA"
    /\ gb.data = <<Row2(sName, sJohnDoe, sCity, <<"<", "&">>),
                   Row2(sName, <<"J", ".", "D">>, sCity, <<>>)>>
    /\ gb.m = [k \in {sNAME, sCity} |-> IF k = sNAME THEN sName ELSE sCity]
    /\ Collide(1, 2)
    /\ DOMAIN gb.result =
         {<<"s", "l", "i", "d", "e", "_", "1", "_", "J", "_", "D", ".", "p", "p", "t", "x">>,
          <<"s", "l", "i", "d", "e", "_", "2", "_", "J", "_", "D", ".", "p", "p", "t", "x">>}
    /\ DocOfRow(1) # DocOfRow(2)

\* C11: the outer archive of a batch that completes holds exactly one entry
\* per row, the entry named for the row's index, whatever the rows' first
\* values are (equal, empty or missing).
C11_OneEntryPerRow ==
    gb.pc = "resolved" =>
        /\ Cardinality(DOMAIN gb.result) = Len(gb.data)
        /\ \A k \in 1..Len(gb.data) : FileName(k - 1, gb.data[k]) \in DOMAIN gb.result

\* Three rows whose first values are missing, empty and empty again.
C11_Witness ==
    /\ gb.pc = "resolved"
    /\ gb.data = <<<<>>, <<[col |-> sName, val |-> <<>>]>>, <<[col |-> sName, val |-> <<>>]>>>>
    /\ NamePart(gb.data[1]) = NamePart(gb.data[2])
    /\ Cardinality(DOMAIN gb.result) = 3

\* C13: every row is substituted into a fresh decode of the template's
\* bytes, which stay what the file holds; the document of every row made so
\* far is the one its row, the mapping and the template alone determine, the
\* same a batch of that row only would hold.
C13_RowsAreIndependent ==
    BatchRunning =>
        /\ gb.pc # "arrayBuffer" => gb.templateArrayBuffer = FileBytes(gb.templateFile)
        /\ gb.pc = "slides" => gb.pptxZip = TemplateParts(gb.templateFile)
        /\ \A k \in 1..gb.i :
              gb.masterZip[FileName(k - 1, gb.data[k])] = DocOfRow(k)

\* The same row before and after a row without columns: the first and the
\* third document are equal and substituted, the second is the template.
C13_Witness ==
    /\ gb.pc = "resolved"
    /\ gb.templateFile = "tplA"
    /\ gb.data = <<Row2(sName, sJohnDoe, sCity, <<"<", "&">>), <<>>,
                   Row2(sName, sJohnDoe, sCity, <<"<", "&">>)>>
    /\ gb.m = [k \in {sNAME, sCity} |-> IF k = sNAME THEN sName ELSE sCity]
    /\ gb.result[FileName(0, gb.data[1])] = gb.result[FileName(2, gb.data[3])]
    /\ gb.result[FileName(0, gb.data[1])][Slide1Path] = sJohnDoe
    /\ gb.result[FileName(1, gb.data[2])] = TemplateParts("tplA")
    /\ gb.templateArrayBuffer = FileBytes("tplA")

----------------------------------------------------------------------------
(* Properties of the App *)

\* C3: a batch that fails on any row fails as a whole.  The rejection carries
\* no archive and none of the documents made so far, and when handleGenerate
\* has caught it there is no download URL, the batch is neither complete nor
\* in progress, and an error message is set.
C3_BatchFailureIsTotal ==
    [][/\ gb'.pc = "rejected" => gb' = BatchRejected(gb'.caller)
       /\ (gb.pc = "rejected" /\ gb.caller = "handleGenerate" /\ gb'.pc = "none") =>
             /\ downloadUrl' = "null"
             /\ ~stats'.isComplete
             /\ ~stats'.isProcessing
             /\ error' # "null"]_vars

\* The batch failed on its second row, after the first was reported.
C3_Witness ==
    /\ gb.pc = "none"
    /\ error = "generate"
    /\ stats = [total |-> 2, processed |-> 1, isProcessing |-> FALSE, isComplete |-> FALSE]
    /\ downloadUrl = "null"

\* The selected CSV file parses to at least one row.
SelectedCsvHasRows ==
    csvFile # NoFile /\ CsvParses(csvFile) /\ CsvRows(csvFile) # <<>>

\* C5: handleGenerate calls generateBatch only when the selected CSV file
\* parses to at least one row.
C5_NoBatchOnEmptySource ==
    [][(gb.pc = "none" /\ gb'.pc # "none") => SelectedCsvHasRows]_vars

\* The template's bytes are no archive, or the archive lacks slide1.xml.
ScanFails(f) == ~IsArchive(f) \/ Slide1Path \notin DOMAIN TemplateParts(f)

\* C12: extractKeysFromPPTX never rejects.  For a template that is no archive
\* or lacks ppt/slides/slide1.xml it resolves to no keys, and the analysis
\* that awaited it sets the preview with zero keys and an empty mapping and
\* reports no error.
C12_ScanFailsSoft ==
    [][\A a \in BagToSet(analyses) :
          (/\ a.pc = "extractKeys"
           /\ ScanFails(a.t)
           /\ analyses' = analyses (-) SetToBag({a})) =>
              /\ KeysOfFile(a.t) = [thrown |-> FALSE, keys |-> <<>>]
              /\ previewData' = [csvHeaders |-> HeadersOf(a.data), templateKeys |-> <<>>,
                                 rowCount |-> Len(a.data)]
              /\ mapping' = <<>>
              /\ error' = error]_vars

\* The analysis of a corrupt template and a CSV of two rows has finished.
C12_Witness ==
    /\ templateFile = "tplCorrupt"
    /\ csvFile = "csvA"
    /\ analyses = EmptyBag
    /\ error = "null"
    /\ previewData = [csvHeaders |-> <<sName, sCity>>, templateKeys |-> <<>>, rowCount |-> 2]
    /\ mapping = <<>>

\* C14: in every state processed is between 0 and total, isProcessing and
\* isComplete are not both true, and isComplete comes with a download URL and
\* processed = total; the step that completes a batch leaves total at the
\* number of rows of that batch, and the stats stay so while isComplete lasts.
C14_StatsConsistent ==
    /\ [](/\ stats.processed \in 0..stats.total
          /\ ~(stats.isProcessing /\ stats.isComplete)
          /\ stats.isComplete => (downloadUrl # "null" /\ stats.processed = stats.total))
    /\ [][/\ (gb.pc = "resolved" /\ gb.caller = "handleGenerate" /\ gb'.pc = "none") =>
                (stats'.isComplete /\ stats'.total = Len(gb.data)
                 /\ Cardinality(DOMAIN gb.result) = stats'.total)
          /\ (stats.isComplete /\ stats'.isComplete) => stats' = stats
          /\ (~stats.isComplete /\ stats'.isComplete) => gb.pc = "resolved"]_vars

\* A batch of two rows has completed.
C14_Witness ==
    /\ stats = [total |-> 2, processed |-> 2, isProcessing |-> FALSE, isComplete |-> TRUE]
    /\ downloadUrl = "blob:lote_gerado"
    /\ gb = NoBatch

\* C15: when no analysis is pending and the selected files are a template
\* and a CSV that parses to rows, csvData and previewData are the ones the
\* analysis of these two files computes and the mapping has the keys of the
\* selected template.
C15_SettledAnalysisIsCurrent ==
    (analyses = EmptyBag /\ templateFile # NoFile /\ SelectedCsvHasRows) =>
        /\ csvData = CsvRows(csvFile)
        /\ previewData = [csvHeaders |-> HeadersOf(CsvRows(csvFile)),
                          templateKeys |-> KeysOfFile(templateFile).keys,
                          rowCount |-> Len(CsvRows(csvFile))]
        /\ DOMAIN mapping = SeqToSet(KeysOfFile(templateFile).keys)

============================================================================
